---- MODULE Spec2Model ----
(***************************************************************************)
(* Model of the combat engine of the time-loop TUI game:                   *)
(*   src/src/combat/health.rs  Health / Damage arithmetic                  *)
(*   src/src/combat.rs         Enemy AI, execute_actions, battle           *)
(*   src/src/player.rs         Player::choose_combat_action, use_item      *)
(* Inventory indices are 0-based as in the source; a sequence inv holds    *)
(* the item with source index i at inv[i + 1].                             *)
(***************************************************************************)
EXTENDS Integers, Sequences, FiniteSets, TLC

VARIABLES
    pc,              \* position of the program: "turn", "shown", "done", "passive", "healed", "panicked", ...
    player,          \* Player: [health, max_health, inventory]
    enemy,           \* Enemy:  [name, health, max_health, inventory]
    turn_number,     \* the caller's turn counter handed to battle()
    player_action,   \* the Action the player chose in the last turn
    enemy_action,    \* the Action the enemy chose in the last turn
    narration,       \* what execute_actions returned in the last turn
    result,          \* "None" while the battle runs, else the BattleResult
    panic,           \* "none", or the kind of fatal error that ended the program
    overflow_checks, \* build profile: TRUE = arithmetic overflow panics, FALSE = it wraps
    prev_player,     \* history: the player before the last operation
    prev_enemy,      \* history: the enemy before the last operation
    turn_start,      \* history: turn_number when battle() was entered
    turns_resolved,  \* history: number of turns execute_actions has resolved
    heal_in,         \* history: the arguments of the last heal_to_max call
    heal_out,        \* history: the outcome of the last heal_to_max call
    remaining_turns, \* Player: remaining_turns
    room,            \* Player: room
    room_graph,      \* Player: room_graph, the enemies and items still in the rooms
    term,            \* the terminal's size as terminal_size() reports it: [w, h]
    num_items,       \* choose_from_list: items.len()
    selected,        \* choose_from_list: the selected item
    scroll_offset,   \* choose_from_list: the scroll offset kept between frames
    rendered,        \* what the last render_list call drew: [max_lines, scroll, rows, ellipsis_at_end]
    prev_scroll,     \* history: the scroll offset handed to the last render_list call
    frame,           \* what the frame written last shows: "none", "border", "title", "list", "too_small"
    source_text,     \* TextLayout::new: text, a sequence of graphemes
    max_width,       \* TextLayout: max_width
    lines,           \* TextLayout: lines, the TextLines pushed so far
    wrap,            \* add_source_line: [x, start, end, is_line_start] of the current render line
    todo,            \* the loops' positions: [line, base, words, pos, first, rest]
    last_word,       \* history: the last word add_source_line took: whether it fitted, its width,
                     \* the width_left computed, the place of its source line (base), of
                     \* itself (pos) and of the first word of its render line (first), the
                     \* number of lines before it (at) and of lines it pushed,
    ms,              \* try_show_screen: the milliseconds that have passed
    render_all_graphemes, \* try_show_screen: whether to render all graphemes
    num_graphemes,   \* try_show_screen: the number of graphemes of the screen's content
    graphemes,       \* try_show_screen: the number of graphemes to render this frame
    key,             \* history: whether poll_stdin returned input in this frame
    key_at           \* history: render_all_graphemes when this frame's input was polled

combat_vars == <<player, enemy, turn_number, player_action, enemy_action, narration,
                 result, prev_player, prev_enemy, turn_start, turns_resolved,
                 heal_in, heal_out, remaining_turns, room, room_graph>>

list_vars == <<num_items, selected, scroll_offset, rendered, prev_scroll>>

layout_vars == <<source_text, max_width, lines, wrap, todo, last_word>>

screen_vars == <<ms, render_all_graphemes, num_graphemes, graphemes, key, key_at>>

tui_vars == <<term, frame, list_vars, layout_vars, screen_vars>>

vars == <<pc, panic, overflow_checks, combat_vars, tui_vars>>

\* Nothing has been rendered yet
NotRendered == [max_lines |-> 0, scroll |-> 0, rows |-> 0, ellipsis_at_end |-> FALSE]

\* No list is being shown
ListIdle ==
    /\ num_items = 0
    /\ selected = 0
    /\ scroll_offset = 0
    /\ rendered = NotRendered
    /\ prev_scroll = 0

\* The locals of add_source_line at its entry
LineStart == [x |-> 0, start |-> 0, end |-> 0, is_line_start |-> TRUE]

\* No source line is being wrapped
NothingToDo == [line |-> <<>>, base |-> 0, words |-> <<>>, pos |-> 0, first |-> 0, rest |-> <<>>]

\* No word has been added yet
NoWord == [fits |-> TRUE, width |-> 0, width_left |-> 0, base |-> 0, pos |-> 0,
           first |-> 0, at |-> 0, pushed |-> 0]

\* No text is being laid out
LayoutIdle ==
    /\ source_text = <<>>
    /\ max_width = 0
    /\ lines = <<>>
    /\ wrap = LineStart
    /\ todo = NothingToDo
    /\ last_word = NoWord

\* No screen is being shown
ScreenIdle ==
    /\ ms = 0
    /\ render_all_graphemes = FALSE
    /\ num_graphemes = 0
    /\ graphemes = 0
    /\ key = FALSE
    /\ key_at = FALSE

\* No menu is being shown
TuiIdle ==
    /\ term = [w |-> 0, h |-> 0]
    /\ frame = "none"
    /\ ListIdle
    /\ LayoutIdle
    /\ ScreenIdle

----------------------------------------------------------------------------
(* Bounds of the model *)

\* The largest usize value of the model (the source's usize::MAX, scaled down).
UsizeMax == 31

\* The number of items in the two inventories of a battle, taken together.
MaxItems == 2

\* The number of turns of one battle the model follows.
MaxTurns == 2

\* The enemy's hash takes the values 0..MaxHash (every residue mod 8 and mod 7).
MaxHash == 7

----------------------------------------------------------------------------
(* Program constants *)

PLAYER_START_MAX_HEALTH == 10

MECHANIC_MAX_HEALTH == 10

\* config.rs: the number of turns before the time loop resets
MAX_TURNS == 30

\* config.rs: the room the player starts in
STARTING_ROOM == "Cells"

\* map.rs, init: the cook waits in the mess hall, the skipper in the
\* strategy room, and the intruders blaster hangs in the bridge
map_init == [cook |-> TRUE, skipper |-> TRUE, intruders_blaster |-> TRUE]

----------------------------------------------------------------------------
(* Items: src/src/items.rs, src/src/map/weapons.rs, src/src/map/food.rs *)

Food(name, heals_for) ==
    [kind |-> "Food", name |-> name, heals_for |-> heals_for,
     straight_damage |-> 0, dodge_damage |-> 0, speed |-> 0]

Weapon(name, straight_damage, dodge_damage, speed) ==
    [kind |-> "Weapon", name |-> name, heals_for |-> 0,
     straight_damage |-> straight_damage, dodge_damage |-> dodge_damage, speed |-> speed]

Maps ==
    [kind |-> "Maps", name |-> "Galactic Maps 2168 Edition", heals_for |-> 0,
     straight_damage |-> 0, dodge_damage |-> 0, speed |-> 0]

standard_blaster == Weapon("Standard Issue Blaster", 5, 2, 4)

throwing_dart_set == Weapon("Set of Throwing Darts", 2, 2, 1)

bread_roll == Food("Bread roll", 5)

\* A food whose heals_for is the largest Damage a usize can hold.
feast == Food("Feast", UsizeMax)

Catalogue == {standard_blaster, throwing_dart_set, bread_roll, feast, Maps}

----------------------------------------------------------------------------
(* Health / Damage arithmetic: src/src/combat/health.rs *)

Min(a, b) == IF a <= b THEN a ELSE b

\* usize arithmetic of a build without overflow checks
Wrap(n) == n % (UsizeMax + 1)

\* Mutant of SatSub: a plain subtraction
SatSub_plain(health, damage) == health - damage

\* impl Sub<Damage> for Health, impl SubAssign<Damage> for Health
SatSub(health, damage) == IF damage >= health THEN 0 ELSE health - damage

\* Health::is_0
is_0(health) == health = 0

\* Health::heal_to_max: [panic, health, inc], where health is the new health
\* and inc the returned Damage. self.0 + heal_by.0 is a usize addition.
heal_to_max(health, heal_by, max, checks) ==
    LET sum == health + heal_by
    IN  IF sum > UsizeMax /\ checks
        THEN [panic |-> "overflow", health |-> health, inc |-> 0]
        ELSE LET new_health == Min(max, Wrap(sum))
                 diff == new_health - health
             IN  IF diff < 0 /\ checks
                 THEN [panic |-> "overflow", health |-> health, inc |-> 0]
                 ELSE [panic |-> "none", health |-> new_health,
                       inc |-> Wrap(diff + UsizeMax + 1)]

----------------------------------------------------------------------------
(* Actions of a combatant: src/src/combat.rs, enum Action *)

Nothing == [kind |-> "Nothing", idx |-> 0]

DodgeLeft == [kind |-> "DodgeLeft", idx |-> 0]

DodgeRight == [kind |-> "DodgeRight", idx |-> 0]

EatFood(i) == [kind |-> "EatFood", idx |-> i]

AttackStraight(i) == [kind |-> "AttackStraight", idx |-> i]

AttackLeft(i) == [kind |-> "AttackLeft", idx |-> i]

AttackRight(i) == [kind |-> "AttackRight", idx |-> i]

\* Mutant of position: the index counts from 1
position_from_one(inventory, kind) ==
    LET hits == {i \in 1..Len(inventory) : inventory[i].kind = kind}
    IN  IF hits = {} THEN -1
        ELSE CHOOSE i \in hits : \A j \in hits : i <= j

\* inventory.iter().position(|i| matches!(i, kind)): the 0-based index of the
\* first item of that kind, -1 for None
position(inventory, kind) ==
    LET hits == {i \in 1..Len(inventory) : inventory[i].kind = kind}
    IN  IF hits = {} THEN -1
        ELSE (CHOOSE i \in hits : \A j \in hits : i <= j) - 1

\* Vec::remove(i) on a valid index
remove(inventory, i) ==
    [k \in 1..(Len(inventory) - 1) |-> IF k <= i THEN inventory[k] ELSE inventory[k + 1]]

----------------------------------------------------------------------------
(* Choosing the actions of a turn *)

\* Player::choose_combat_action, the option list: Nothing and the two dodges,
\* then one entry per food (EatFood) and per weapon (AttackStraight), in
\* inventory order
combat_options(inventory) ==
    LET usable == SelectSeq([i \in 1..Len(inventory) |-> i],
                            LAMBDA i : inventory[i].kind \in {"Food", "Weapon"})
    IN  <<Nothing, DodgeLeft, DodgeRight>> \o
        [k \in 1..Len(usable) |->
            IF inventory[usable[k]].kind = "Food"
            THEN EatFood(usable[k] - 1)
            ELSE AttackStraight(usable[k] - 1)]

\* Player::choose_combat_action: choice is the 0-based answer of the menu to
\* the option list, direction its answer to "Which way do you attack?"
player_choose_combat_action(inventory, choice, direction) ==
    LET options == combat_options(inventory)
        chosen == options[choice + 1]
    IN  IF chosen.kind = "AttackStraight"
        THEN CASE direction = 0 -> AttackLeft(chosen.idx)
               [] direction = 1 -> AttackStraight(chosen.idx)
               [] direction = 2 -> AttackRight(chosen.idx)
        ELSE chosen

\* Mutant of enemy_choose_combat_action: eats only strictly below half health
enemy_choose_below_half(e, hash) ==
    LET food_index == position(e.inventory, "Food")
        weapon_index == position(e.inventory, "Weapon")
    IN  IF e.health * 2 < e.max_health /\ food_index >= 0
        THEN EatFood(food_index)
        ELSE IF weapon_index >= 0
             THEN CASE hash % 8 = 0 -> AttackLeft(weapon_index)
                    [] hash % 8 \in 1..3 -> AttackStraight(weapon_index)
                    [] hash % 8 = 4 -> AttackRight(weapon_index)
                    [] hash % 8 = 5 -> DodgeLeft
                    [] hash % 8 = 6 -> DodgeRight
                    [] hash % 8 = 7 -> Nothing
             ELSE CASE hash % 7 \in 0..1 -> DodgeLeft
                    [] hash % 7 \in 2..4 -> Nothing
                    [] hash % 7 \in 5..6 -> DodgeRight

\* Mutant of enemy_choose_combat_action: an enemy without a weapon picks
\* from the actions of an armed one
enemy_choose_always_armed(e, hash) ==
    LET food_index == position(e.inventory, "Food")
        weapon_index == position(e.inventory, "Weapon")
        index == IF weapon_index >= 0 THEN weapon_index ELSE 0
    IN  IF e.health * 2 <= e.max_health /\ food_index >= 0
        THEN EatFood(food_index)
        ELSE CASE hash % 8 = 0 -> AttackLeft(index)
               [] hash % 8 \in 1..3 -> AttackStraight(index)
               [] hash % 8 = 4 -> AttackRight(index)
               [] hash % 8 = 5 -> DodgeLeft
               [] hash % 8 = 6 -> DodgeRight
               [] hash % 8 = 7 -> Nothing

\* Enemy::choose_combat_action; hash is the value of hash_with_turn
enemy_choose_combat_action(e, hash) ==
    LET food_index == position(e.inventory, "Food")
        weapon_index == position(e.inventory, "Weapon")
    IN  IF e.health * 2 <= e.max_health /\ food_index >= 0
        THEN EatFood(food_index)
        ELSE IF weapon_index >= 0
             THEN CASE hash % 8 = 0 -> AttackLeft(weapon_index)
                    [] hash % 8 \in 1..3 -> AttackStraight(weapon_index)
                    [] hash % 8 = 4 -> AttackRight(weapon_index)
                    [] hash % 8 = 5 -> DodgeLeft
                    [] hash % 8 = 6 -> DodgeRight
                    [] hash % 8 = 7 -> Nothing
             ELSE CASE hash % 7 \in 0..1 -> DodgeLeft
                    [] hash % 7 \in 2..4 -> Nothing
                    [] hash % 7 \in 5..6 -> DodgeRight

----------------------------------------------------------------------------
(* execute_actions: src/src/combat.rs *)

\* What indexing inventory[i] and matching the item against a kind does:
\* "none" when the item is there and of that kind
item_check(inventory, i, kind) ==
    IF i >= Len(inventory) THEN "index_out_of_bounds"
    ELSE IF inventory[i + 1].kind # kind THEN "unreachable"
    ELSE "none"

\* The value of one match arm: the combatants after it and its result text
Outcome(p, e, fatal, text) == [panic |-> fatal, player |-> p, enemy |-> e, text |-> text]

NoText == [text |-> "", item |-> "", item2 |-> "", amount |-> 0, amount2 |-> 0]

Text(text, item, amount, amount2) ==
    [text |-> text, item |-> item, item2 |-> "", amount |-> amount, amount2 |-> amount2]

\* (AttackStraight(p), Nothing | AttackLeft(_) | AttackRight(_) | EatFood(_))
player_hits_straight(p, e, pa) ==
    LET chk == item_check(p.inventory, pa.idx, "Weapon")
    IN  IF chk # "none" THEN Outcome(p, e, chk, NoText)
        ELSE LET weapon == p.inventory[pa.idx + 1]
                 damage == weapon.straight_damage
             IN  Outcome(p, [e EXCEPT !.health = SatSub(e.health, damage)], "none",
                         Text("You hit the {enemy} with your {} and dealt {} damage.",
                              weapon.name, damage, 0))

\* Mutant of enemy_hits_straight: the hit deals the weapon's dodge_damage
enemy_hits_straight_dodge_damage(p, e, ea) ==
    LET weapon == e.inventory[ea.idx + 1]
        damage == weapon.dodge_damage
    IN  Outcome([p EXCEPT !.health = SatSub(p.health, damage)], e, "none",
                Text("You hit the {enemy} with your {} and dealt {} damage.",
                     weapon.name, damage, 0))

\* (Nothing | AttackLeft(_) | AttackRight(_) | EatFood(_), AttackStraight(e))
enemy_hits_straight(p, e, ea) ==
    LET chk == item_check(e.inventory, ea.idx, "Weapon")
    IN  IF chk # "none" THEN Outcome(p, e, chk, NoText)
        ELSE LET weapon == e.inventory[ea.idx + 1]
                 damage == weapon.straight_damage
             IN  Outcome([p EXCEPT !.health = SatSub(p.health, damage)], e, "none",
                         Text("You hit the {enemy} with your {} and dealt {} damage.",
                              weapon.name, damage, 0))

\* Mutant of both_attack_straight: at equal speed only the player hits
both_attack_straight_tie_to_player(p, e, pa, ea) ==
    LET p_weapon == p.inventory[pa.idx + 1]
        e_weapon == e.inventory[ea.idx + 1]
    IN  IF p_weapon.speed <= e_weapon.speed
        THEN Outcome(p, [e EXCEPT !.health = SatSub(e.health, p_weapon.straight_damage)],
                     "none", NoText)
        ELSE Outcome([p EXCEPT !.health = SatSub(p.health, e_weapon.straight_damage)], e,
                     "none", NoText)

\* (AttackStraight(p), AttackStraight(e)): the weapons' speeds decide
both_attack_straight(p, e, pa, ea) ==
    LET pchk == item_check(p.inventory, pa.idx, "Weapon")
        echk == item_check(e.inventory, ea.idx, "Weapon")
    IN  IF pchk # "none" THEN Outcome(p, e, pchk, NoText)
        ELSE IF echk # "none" THEN Outcome(p, e, echk, NoText)
        ELSE LET p_weapon == p.inventory[pa.idx + 1]
                 e_weapon == e.inventory[ea.idx + 1]
                 p_damage == p_weapon.straight_damage
                 e_damage == e_weapon.straight_damage
             IN  IF p_weapon.speed < e_weapon.speed
                 THEN Outcome(p, [e EXCEPT !.health = SatSub(e.health, p_damage)], "none",
                        Text("You both attacked, and you were faster and got away unscathed",
                             "", 0, 0))
                 ELSE IF p_weapon.speed > e_weapon.speed
                 THEN Outcome([p EXCEPT !.health = SatSub(p.health, e_damage)], e, "none",
                        Text("You both attacked, but the {enemy} was faster and you couldn't get a hit in.",
                             "", 0, 0))
                 ELSE Outcome([p EXCEPT !.health = SatSub(p.health, e_damage)],
                              [e EXCEPT !.health = SatSub(e.health, p_damage)], "none",
                        Text("You both attacked with the same speed, and you both got hit.",
                             "", 0, 0))

\* One combatant c eats the food at index i: inventory.remove(i), the match
\* against Item::Food, then heal_to_max. [panic, who, food, inc]
eat(c, i, checks) ==
    IF i >= Len(c.inventory)
    THEN [panic |-> "index_out_of_bounds", who |-> c, food |-> "", inc |-> 0]
    ELSE LET item == c.inventory[i + 1]
             removed == [c EXCEPT !.inventory = remove(c.inventory, i)]
         IN  IF item.kind # "Food"
             THEN [panic |-> "unreachable", who |-> removed, food |-> "", inc |-> 0]
             ELSE LET h == heal_to_max(c.health, item.heals_for, c.max_health, checks)
                  IN  [panic |-> h.panic, who |-> [removed EXCEPT !.health = h.health],
                       food |-> item.name, inc |-> h.inc]

\* (EatFood(p), EatFood(e)). Both removals come before both heals; a fatal
\* error in a removal or a heal ends the program, so the order in which the
\* model evaluates the two sides shows only in which error is reported.
both_eat(p, e, pa, ea, checks) ==
    LET pe == eat(p, pa.idx, checks)
        ee == eat(e, ea.idx, checks)
        p_removal == pe.panic \in {"index_out_of_bounds", "unreachable"}
        e_removal == ee.panic \in {"index_out_of_bounds", "unreachable"}
    IN  IF p_removal THEN Outcome(pe.who, e, pe.panic, NoText)
        ELSE IF e_removal THEN Outcome(pe.who, ee.who, ee.panic, NoText)
        ELSE IF pe.panic # "none" THEN Outcome(pe.who, ee.who, pe.panic, NoText)
        ELSE IF ee.panic # "none" THEN Outcome(pe.who, ee.who, ee.panic, NoText)
        ELSE Outcome(pe.who, ee.who, "none",
                [Text("You both took some time out of the fight to eat some food - how peaceful.\nYou ate your {} and were healed {} HP. The {enemy} ate their {} and was healed {} HP.",
                      pe.food, pe.inc, ee.inc) EXCEPT !.item2 = ee.food])

\* (EatFood(p), _)
player_eats(p, e, pa, checks) ==
    LET pe == eat(p, pa.idx, checks)
    IN  IF pe.panic # "none" THEN Outcome(pe.who, e, pe.panic, NoText)
        ELSE Outcome(pe.who, e, "none",
                Text("You ate your {} and were healed by {} HP", pe.food, pe.inc, 0))

\* (_, EatFood(e))
enemy_eats(p, e, ea, checks) ==
    LET ee == eat(e, ea.idx, checks)
    IN  IF ee.panic # "none" THEN Outcome(p, ee.who, ee.panic, NoText)
        ELSE Outcome(p, ee.who, "none",
                Text("The {enemy} ate their {} and was healed by {} HP", ee.food, ee.inc, 0))

\* (AttackLeft(p), DodgeLeft) | (AttackRight(p), DodgeRight)
player_catches_dodge(p, e, pa) ==
    LET chk == item_check(p.inventory, pa.idx, "Weapon")
    IN  IF chk # "none" THEN Outcome(p, e, chk, NoText)
        ELSE LET p_weapon == p.inventory[pa.idx + 1]
                 prev_enemy_health == e.health
                 new_health == SatSub(e.health, p_weapon.dodge_damage)
             IN  Outcome(p, [e EXCEPT !.health = new_health], "none",
                    Text("The {enemy} dodged, but you caught them and dealt {} damage.",
                         "", prev_enemy_health - new_health, 0))

\* Mutant of enemy_catches_dodge: the narration reports the weapon's dodge_damage
enemy_catches_dodge_raw_damage(p, e, ea) ==
    LET e_weapon == e.inventory[ea.idx + 1]
    IN  Outcome([p EXCEPT !.health = SatSub(p.health, e_weapon.dodge_damage)], e, "none",
                Text("You dodged, but the {enemy} caught you and dealt {} damage.",
                     "", e_weapon.dodge_damage, 0))

\* (DodgeLeft, AttackLeft(e)) | (DodgeRight, AttackRight(e))
enemy_catches_dodge(p, e, ea) ==
    LET chk == item_check(e.inventory, ea.idx, "Weapon")
    IN  IF chk # "none" THEN Outcome(p, e, chk, NoText)
        ELSE LET e_weapon == e.inventory[ea.idx + 1]
                 prev_player_health == p.health
                 new_health == SatSub(p.health, e_weapon.dodge_damage)
             IN  Outcome([p EXCEPT !.health = new_health], e, "none",
                    Text("You dodged, but the {enemy} caught you and dealt {} damage.",
                         "", prev_player_health - new_health, 0))

Attacks == {"AttackLeft", "AttackStraight", "AttackRight"}

Passive == {"Nothing", "DodgeLeft", "DodgeRight"}

\* Mutant of StraightTargets: a straight attack does not stop an eater
StraightTargets_without_eat == {"Nothing", "AttackLeft", "AttackRight"}

\* Mutant of StraightTargets: a straight attack also hits who dodges left
StraightTargets_with_dodge == {"Nothing", "AttackLeft", "AttackRight", "EatFood", "DodgeLeft"}

StraightTargets == {"Nothing", "AttackLeft", "AttackRight", "EatFood"}

\* Mutant of resolve: the arms of a missed attack come before the arms of a
\* single eater
resolve_miss_before_eat(p, e, pa, ea, checks) ==
    IF pa.kind = "AttackStraight" /\ ea.kind \in StraightTargets
        THEN player_hits_straight(p, e, pa)
    ELSE IF pa.kind \in StraightTargets /\ ea.kind = "AttackStraight"
        THEN enemy_hits_straight(p, e, ea)
    ELSE IF pa.kind = "AttackStraight" /\ ea.kind = "AttackStraight"
        THEN both_attack_straight(p, e, pa, ea)
    ELSE IF pa.kind = "EatFood" /\ ea.kind = "EatFood"
        THEN both_eat(p, e, pa, ea, checks)
    ELSE IF \/ pa.kind = "AttackLeft" /\ ea.kind = "DodgeLeft"
            \/ pa.kind = "AttackRight" /\ ea.kind = "DodgeRight"
        THEN player_catches_dodge(p, e, pa)
    ELSE IF \/ pa.kind = "DodgeLeft" /\ ea.kind = "AttackLeft"
            \/ pa.kind = "DodgeRight" /\ ea.kind = "AttackRight"
        THEN enemy_catches_dodge(p, e, ea)
    ELSE IF pa.kind \in Passive /\ ea.kind \in Passive
        THEN Outcome(p, e, "none",
                Text("Neither of you attacked. What a waste of time.", "", 0, 0))
    ELSE IF pa.kind \in Attacks
        THEN Outcome(p, e, "none", Text("You attacked but it didn't connect", "", 0, 0))
    ELSE IF ea.kind \in Attacks
        THEN Outcome(p, e, "none", Text("The enemy attacked but it didn't connect.", "", 0, 0))
    ELSE IF pa.kind = "EatFood"
        THEN player_eats(p, e, pa, checks)
    ELSE enemy_eats(p, e, ea, checks)

\* The match of execute_actions: the first arm that fits the pair decides
resolve(p, e, pa, ea, checks) ==
    IF pa.kind = "AttackStraight" /\ ea.kind \in StraightTargets
        THEN player_hits_straight(p, e, pa)
    ELSE IF pa.kind \in StraightTargets /\ ea.kind = "AttackStraight"
        THEN enemy_hits_straight(p, e, ea)
    ELSE IF pa.kind = "AttackStraight" /\ ea.kind = "AttackStraight"
        THEN both_attack_straight(p, e, pa, ea)
    ELSE IF pa.kind = "EatFood" /\ ea.kind = "EatFood"
        THEN both_eat(p, e, pa, ea, checks)
    ELSE IF pa.kind = "EatFood"
        THEN player_eats(p, e, pa, checks)
    ELSE IF ea.kind = "EatFood"
        THEN enemy_eats(p, e, ea, checks)
    ELSE IF \/ pa.kind = "AttackLeft" /\ ea.kind = "DodgeLeft"
            \/ pa.kind = "AttackRight" /\ ea.kind = "DodgeRight"
        THEN player_catches_dodge(p, e, pa)
    ELSE IF \/ pa.kind = "DodgeLeft" /\ ea.kind = "AttackLeft"
            \/ pa.kind = "DodgeRight" /\ ea.kind = "AttackRight"
        THEN enemy_catches_dodge(p, e, ea)
    ELSE IF pa.kind \in Passive /\ ea.kind \in Passive
        THEN Outcome(p, e, "none",
                Text("Neither of you attacked. What a waste of time.", "", 0, 0))
    ELSE IF pa.kind \in Attacks
        THEN Outcome(p, e, "none", Text("You attacked but it didn't connect", "", 0, 0))
    ELSE Outcome(p, e, "none", Text("The enemy attacked but it didn't connect.", "", 0, 0))

\* Player::describe_combat_action / Enemy::describe_combat_action: the text
\* and the name of inventory[index], read from the inventory as it is now
describe_combat_action(inventory, action) ==
    IF action.kind \in Attacks \cup {"EatFood"}
    THEN IF action.idx >= Len(inventory)
         THEN [panic |-> "index_out_of_bounds", action |-> action.kind, item |-> ""]
         ELSE [panic |-> "none", action |-> action.kind,
               item |-> inventory[action.idx + 1].name]
    ELSE [panic |-> "none", action |-> action.kind, item |-> ""]

\* execute_actions: the match, then the two descriptions, built from the
\* combatants as the match left them
execute_actions(p, e, pa, ea, checks) ==
    LET r == resolve(p, e, pa, ea, checks)
        pd == describe_combat_action(r.player.inventory, pa)
        ed == describe_combat_action(r.enemy.inventory, ea)
        fatal == IF r.panic # "none" THEN r.panic
                 ELSE IF pd.panic # "none" THEN pd.panic
                 ELSE ed.panic
    IN  [panic |-> fatal, player |-> r.player, enemy |-> r.enemy,
         narration |-> [player |-> pd, enemy |-> ed, result_text |-> r.text]]

----------------------------------------------------------------------------
(* battle: src/src/combat.rs *)

\* Mutant of battle_outcome: the enemy's health is checked first
battle_outcome_enemy_first(p, e) ==
    IF is_0(e.health) THEN "PlayerWin"
    ELSE IF is_0(p.health) THEN "PlayerLoss"
    ELSE "Continue"

\* The check at the end of a turn of battle(): the player's health first
battle_outcome(p, e) ==
    IF is_0(p.health) THEN "PlayerLoss"
    ELSE IF is_0(e.health) THEN "PlayerWin"
    ELSE "Continue"

\* Mutant of pick_up_item: the item goes to the front of the inventory
pick_up_item_front(inventory, item) == <<item>> \o inventory

\* Player::pick_up_item
pick_up_item(inventory, item) == Append(inventory, item)

\* win_battle: the player picks up the enemy's items one by one, in order
RECURSIVE win_battle(_, _)
win_battle(inventory, enemy_inventory) ==
    IF enemy_inventory = <<>> THEN inventory
    ELSE win_battle(pick_up_item(inventory, Head(enemy_inventory)), Tail(enemy_inventory))

NoAction == [kind |-> "None", idx |-> 0]

NoDescription == [panic |-> "none", action |-> "None", item |-> ""]

NoNarration == [player |-> NoDescription, enemy |-> NoDescription, result_text |-> NoText]

NoHeal == [health |-> 0, heal_by |-> 0, max |-> 0]

NoHealOut == [panic |-> "none", health |-> 0, inc |-> 0]

\* No battle is being fought
CombatIdle ==
    /\ player = [health |-> PLAYER_START_MAX_HEALTH, max_health |-> PLAYER_START_MAX_HEALTH,
                 inventory |-> <<>>]
    /\ enemy = [name |-> "", health |-> 0, max_health |-> 0, inventory |-> <<>>]
    /\ turn_number = 0
    /\ turn_start = 0
    /\ turns_resolved = 0
    /\ player_action = NoAction
    /\ enemy_action = NoAction
    /\ narration = NoNarration
    /\ result = "None"
    /\ prev_player = player
    /\ prev_enemy = enemy
    /\ heal_in = NoHeal
    /\ heal_out = NoHealOut
    /\ remaining_turns = MAX_TURNS
    /\ room = STARTING_ROOM
    /\ room_graph = map_init

\* All sequences over S of length n
RECURSIVE SeqsOfLen(_, _)
SeqsOfLen(S, n) ==
    IF n = 0 THEN {<<>>}
    ELSE {Append(s, x) : s \in SeqsOfLen(S, n - 1), x \in S}

\* The inventories of a battle: at most MaxItems items on the two sides together
Inventories(n) == UNION {SeqsOfLen(Catalogue, k) : k \in 0..n}

\* The healths a battle starts with: both combatants at full health, or both
\* at half of it
StartHealths ==
    {[player |-> PLAYER_START_MAX_HEALTH, enemy |-> MECHANIC_MAX_HEALTH],
     [player |-> PLAYER_START_MAX_HEALTH \div 2, enemy |-> MECHANIC_MAX_HEALTH \div 2]}

\* battle() has been entered and has shown "You are spotted by ..."
Init ==
    /\ pc = "turn"
    /\ \E pinv \in Inventories(MaxItems) :
         \E einv \in Inventories(MaxItems - Len(pinv)) :
           \E start \in StartHealths :
             /\ player = [health |-> start.player, max_health |-> PLAYER_START_MAX_HEALTH,
                          inventory |-> pinv]
             /\ enemy = [name |-> "Mechanic", health |-> start.enemy,
                         max_health |-> MECHANIC_MAX_HEALTH, inventory |-> einv]
    /\ turn_number = 1
    /\ turn_start = 1
    /\ turns_resolved = 0
    /\ player_action = NoAction
    /\ enemy_action = NoAction
    /\ narration = NoNarration
    /\ result = "None"
    /\ panic = "none"
    /\ overflow_checks \in BOOLEAN
    /\ prev_player = player
    /\ prev_enemy = enemy
    /\ heal_in = NoHeal
    /\ heal_out = NoHealOut
    /\ remaining_turns = MAX_TURNS
    /\ room = STARTING_ROOM
    /\ room_graph = map_init
    /\ TuiIdle

\* One pass of the loop of battle() up to the "Turn Result" screen: both
\* actions are chosen, then execute_actions resolves them
BattleTurn ==
    /\ pc = "turn"
    /\ turns_resolved < MaxTurns
    /\ \E pa \in {player_choose_combat_action(player.inventory, choice, direction) :
                      choice \in 0..(Len(combat_options(player.inventory)) - 1),
                      direction \in 0..2},
          ea \in {enemy_choose_combat_action(enemy, hash) : hash \in 0..MaxHash} :
           \E r \in {execute_actions(player, enemy, pa, ea, overflow_checks)} :
             /\ player_action' = pa
             /\ enemy_action' = ea
             /\ prev_player' = player
             /\ prev_enemy' = enemy
             /\ player' = r.player
             /\ enemy' = r.enemy
             /\ narration' = r.narration
             /\ panic' = r.panic
             /\ pc' = IF r.panic = "none" THEN "shown" ELSE "panicked"
             /\ turns_resolved' = IF r.panic = "none" THEN turns_resolved + 1
                                  ELSE turns_resolved
    /\ UNCHANGED <<turn_number, result, overflow_checks, turn_start, heal_in, heal_out,
                   remaining_turns, room, room_graph>>
    /\ UNCHANGED tui_vars

\* The end of the pass: return PlayerLoss, or win_battle and return
\* PlayerWin, or increment the turn number and loop
BattleCheck ==
    /\ pc = "shown"
    /\ LET outcome == battle_outcome(player, enemy)
       IN  /\ result' = IF outcome = "Continue" THEN "None" ELSE outcome
           /\ pc' = IF outcome = "Continue" THEN "turn" ELSE "done"
           /\ player' = IF outcome = "PlayerWin"
                        THEN [player EXCEPT !.inventory = win_battle(@, enemy.inventory)]
                        ELSE player
           /\ turn_number' = IF outcome = "Continue" THEN turn_number + 1 ELSE turn_number
    /\ UNCHANGED <<enemy, player_action, enemy_action, narration, panic, overflow_checks,
                   prev_player, prev_enemy, turn_start, turns_resolved, heal_in, heal_out,
                   remaining_turns, room, room_graph>>
    /\ UNCHANGED tui_vars

Next == BattleTurn \/ BattleCheck

Spec == Init /\ [][Next]_vars

\* The inventories of a battle that is under way: nothing, one weapon, or a
\* food followed by a weapon
TurnInventories == {<<>>, <<standard_blaster>>, <<bread_roll, throwing_dart_set>>}

\* The healths of a combatant in a battle that is under way: nearly
\* beaten, at half of the maximum, unhurt
TurnHealths(max_health) == {1, max_health \div 2, max_health}

\* battle() is at the head of its loop, its combatants as the turns before
\* have left them
InitTurn ==
    /\ pc = "turn"
    /\ \E pinv \in TurnInventories, einv \in TurnInventories :
         \E ph \in TurnHealths(PLAYER_START_MAX_HEALTH), eh \in TurnHealths(MECHANIC_MAX_HEALTH) :
             /\ player = [health |-> ph, max_health |-> PLAYER_START_MAX_HEALTH,
                          inventory |-> pinv]
             /\ enemy = [name |-> "Mechanic", health |-> eh,
                         max_health |-> MECHANIC_MAX_HEALTH, inventory |-> einv]
    /\ turn_number = 1
    /\ turn_start = 1
    /\ turns_resolved = 0
    /\ player_action = NoAction
    /\ enemy_action = NoAction
    /\ narration = NoNarration
    /\ result = "None"
    /\ panic = "none"
    /\ overflow_checks \in BOOLEAN
    /\ prev_player = player
    /\ prev_enemy = enemy
    /\ heal_in = NoHeal
    /\ heal_out = NoHealOut
    /\ remaining_turns = MAX_TURNS
    /\ room = STARTING_ROOM
    /\ room_graph = map_init
    /\ TuiIdle

SpecTurn == InitTurn /\ [][Next]_vars

----------------------------------------------------------------------------
(* Eating food outside of battle: src/src/player.rs, Player::use_item *)

\* Player::use_item on a food item: heal_to_max, the "You are healed by"
\* screen, then inventory.remove(i). [panic, player]
use_item(p, i, checks) ==
    LET chk == item_check(p.inventory, i, "Food")
    IN  IF chk = "index_out_of_bounds" THEN [panic |-> chk, player |-> p]
        ELSE IF chk = "unreachable" THEN [panic |-> "only_food", player |-> p]
        ELSE LET f == p.inventory[i + 1]
                 h == heal_to_max(p.health, f.heals_for, p.max_health, checks)
             IN  IF h.panic # "none" THEN [panic |-> h.panic, player |-> p]
                 ELSE [panic |-> "none",
                       player |-> [p EXCEPT !.health = h.health,
                                            !.inventory = remove(p.inventory, i)]]

\* The entries of choose_passive_action's option list that use an item: the
\* 0-based indices of the food items
use_item_options(inventory) == {i - 1 : i \in {k \in 1..Len(inventory) : inventory[k].kind = "Food"}}

\* A player with any health below or at any maximum, holding a food that
\* heals by any amount, alone or behind another item (test_use_item)
InitHeal ==
    /\ pc = "passive"
    /\ \E max \in 0..UsizeMax :
         \E health \in 0..max, heal_by \in 0..UsizeMax :
           /\ heal_in = [health |-> health, heal_by |-> heal_by, max |-> max]
           /\ \E inv \in {<<Food("", heal_by)>>, <<Maps, Food("", heal_by)>>} :
                player = [health |-> health, max_health |-> max, inventory |-> inv]
    /\ enemy = [name |-> "", health |-> 0, max_health |-> 0, inventory |-> <<>>]
    /\ turn_number = 0
    /\ turn_start = 0
    /\ turns_resolved = 0
    /\ player_action = NoAction
    /\ enemy_action = NoAction
    /\ narration = NoNarration
    /\ result = "None"
    /\ panic = "none"
    /\ overflow_checks \in BOOLEAN
    /\ prev_player = player
    /\ prev_enemy = enemy
    /\ heal_out = NoHealOut
    /\ remaining_turns = MAX_TURNS
    /\ room = STARTING_ROOM
    /\ room_graph = map_init
    /\ TuiIdle

\* A call of Health::heal_to_max on the player's health
HealToMax ==
    /\ pc = "passive"
    /\ \E h \in {heal_to_max(heal_in.health, heal_in.heal_by, heal_in.max, overflow_checks)} :
         /\ heal_out' = h
         /\ panic' = h.panic
         /\ pc' = IF h.panic = "none" THEN "healed" ELSE "panicked"
         /\ prev_player' = player
         /\ player' = [player EXCEPT !.health = h.health]
    /\ UNCHANGED <<enemy, turn_number, player_action, enemy_action, narration, result,
                   overflow_checks, prev_enemy, turn_start, turns_resolved, heal_in,
                   remaining_turns, room, room_graph>>
    /\ UNCHANGED tui_vars

\* The passive action UseItem(i) on a food item
UseItem ==
    /\ pc = "passive"
    /\ \E i \in use_item_options(player.inventory) :
         \E u \in {use_item(player, i, overflow_checks)} :
           /\ panic' = u.panic
           /\ pc' = IF u.panic = "none" THEN "used" ELSE "panicked"
           /\ prev_player' = player
           /\ player' = u.player
    /\ UNCHANGED <<enemy, turn_number, player_action, enemy_action, narration, result,
                   overflow_checks, prev_enemy, turn_start, turns_resolved, heal_in, heal_out,
                   remaining_turns, room, room_graph>>
    /\ UNCHANGED tui_vars

NextHeal == HealToMax \/ UseItem

SpecHeal == InitHeal /\ [][NextHeal]_vars

----------------------------------------------------------------------------
(* The list viewport: src/src/menu/unix.rs, src/src/menu/unix/rendering.rs *)

LEFT_OFFSET == 3

TOP_OFFSET == 2

BOTTOM_OFFSET == 2

RIGHT_OFFSET == 2

\* The smallest terminal get_size_checked accepts
MinWidth == LEFT_OFFSET + RIGHT_OFFSET + 50

MinHeight == TOP_OFFSET + BOTTOM_OFFSET + 10

\* get_size_checked: Err(TerminalTooSmall) or Ok((w, h))
get_size_checked(size) ==
    IF size.w < MinWidth \/ size.h < MinHeight THEN "TerminalTooSmall" ELSE "Ok"

\* The number of list rows of a terminal of height h
max_lines_of(h) == h - TOP_OFFSET - BOTTOM_OFFSET

\* The offset that makes the selection the last rendered row (one row too far)
scroll_down_past(sel, lines_to_render) == sel - lines_to_render

\* The offset that makes the selection the last rendered row
scroll_down(sel, lines_to_render) == sel - lines_to_render + 1

\* Tui::render_list on a list of n items with the scroll offset kept from the
\* frame before: the new offset, the number of item rows drawn and whether
\* the truncation indicator is drawn below them
render_list(n, size, scroll, sel) ==
    IF get_size_checked(size) # "Ok"
    THEN [panic |-> "terminal_too_small", max_lines |-> 0, scroll |-> scroll,
          rows |-> 0, ellipsis_at_end |-> FALSE]
    ELSE LET max_lines == max_lines_of(size.h)
             requires_scroll == n > max_lines
             ellipsis_before == requires_scroll /\ scroll + max_lines < n
             lines_to_render == IF ellipsis_before THEN max_lines - 1 ELSE n
             new_scroll ==
                 IF ~requires_scroll THEN 0
                 ELSE IF scroll > n - max_lines THEN n - max_lines
                 ELSE IF scroll > sel THEN sel
                 ELSE IF scroll + lines_to_render <= sel
                      THEN scroll_down(sel, lines_to_render)
                 ELSE scroll
             ellipsis_at_end == requires_scroll /\ new_scroll + max_lines < n
             num_lines_to_render == IF ellipsis_at_end THEN max_lines - 1 ELSE n
         IN  [panic |-> "none", max_lines |-> max_lines, scroll |-> new_scroll,
              rows |-> Min(num_lines_to_render, n - new_scroll),
              ellipsis_at_end |-> ellipsis_at_end]

\* The terminal heights of the model reach MaxExtraRows above the minimum
MaxExtraRows == 2

\* The longest list of the model
MaxListLen == 13

\* Terminals that are large enough
LargeTerminals == {[w |-> MinWidth, h |-> h] : h \in MinHeight..(MinHeight + MaxExtraRows)}

\* Terminals that are too small, by width or by height
SmallTerminals == {[w |-> MinWidth - 1, h |-> MinHeight], [w |-> MinWidth, h |-> MinHeight - 1]}

\* render_list is about to be called on any list, with any selection and any
\* scroll offset up to one past the end of the list
InitList ==
    /\ pc = "list"
    /\ panic = "none"
    /\ overflow_checks \in BOOLEAN
    /\ CombatIdle
    /\ term \in LargeTerminals
    /\ frame = "title"
    /\ num_items \in 1..MaxListLen
    /\ selected \in 0..(num_items - 1)
    /\ scroll_offset \in 0..(num_items + 1)
    /\ rendered = NotRendered
    /\ prev_scroll = scroll_offset
    /\ LayoutIdle
    /\ ScreenIdle

\* One call of render_list
RenderList ==
    /\ pc = "list"
    /\ \E r \in {render_list(num_items, term, scroll_offset, selected)} :
         /\ panic' = r.panic
         /\ pc' = IF r.panic = "none" THEN "input" ELSE "panicked"
         /\ prev_scroll' = scroll_offset
         /\ scroll_offset' = r.scroll
         /\ rendered' = [max_lines |-> r.max_lines, scroll |-> r.scroll, rows |-> r.rows,
                         ellipsis_at_end |-> r.ellipsis_at_end]
         /\ frame' = IF r.panic = "none" THEN "list" ELSE frame
    /\ UNCHANGED <<overflow_checks, combat_vars, term, num_items, selected, layout_vars, screen_vars>>

NextList == RenderList

SpecList == InitList /\ [][NextList]_vars

----------------------------------------------------------------------------
(* The frame loop of Tui::choose_from_list: src/src/menu/unix/rendering.rs *)

\* What poll_stdin can return in one frame
Inputs == {"None", "ANSI_UP", "ANSI_DOWN", "Enter", "Other"}

\* The input handling with a down arrow that is not stopped at the last item
handle_input_down_past_end(input, sel, n) ==
    IF input = "ANSI_UP" /\ sel # 0 THEN [selected |-> sel - 1, returns |-> FALSE]
    ELSE IF input = "ANSI_DOWN" THEN [selected |-> sel + 1, returns |-> FALSE]
    ELSE IF input = "Enter" THEN [selected |-> sel, returns |-> TRUE]
    ELSE [selected |-> sel, returns |-> FALSE]

\* The input handling at the end of a frame: [selected, returns]
handle_input(input, sel, n) ==
    IF input = "ANSI_UP" /\ sel # 0 THEN [selected |-> sel - 1, returns |-> FALSE]
    ELSE IF input = "ANSI_DOWN" /\ sel # n - 1 THEN [selected |-> sel + 1, returns |-> FALSE]
    ELSE IF input = "Enter" THEN [selected |-> sel, returns |-> TRUE]
    ELSE [selected |-> sel, returns |-> FALSE]

\* choose_from_list has been called on a list of at least one item and is at
\* the top of its loop
InitChoose ==
    /\ pc = "frame"
    /\ panic = "none"
    /\ overflow_checks \in BOOLEAN
    /\ CombatIdle
    /\ term \in LargeTerminals \cup SmallTerminals
    /\ frame = "none"
    /\ num_items \in 1..MaxListLen
    /\ selected = 0
    /\ scroll_offset = 0
    /\ rendered = NotRendered
    /\ prev_scroll = 0
    /\ LayoutIdle
    /\ ScreenIdle

\* The user resizes the terminal, at any moment
Resize ==
    /\ pc \in {"frame", "title", "list", "input",
              "screen_frame", "screen_text", "screen_title", "screen_poll"}
    /\ term' \in (LargeTerminals \cup SmallTerminals) \ {term}
    /\ UNCHANGED <<pc, panic, overflow_checks, combat_vars, frame, list_vars, layout_vars, screen_vars>>

\* flush, sleep and Tui::new_frame; on TerminalTooSmall the notice is
\* rendered and the loop continues
NewFrame ==
    /\ pc = "frame"
    /\ IF get_size_checked(term) = "Ok"
       THEN pc' = "title" /\ frame' = "border"
       ELSE pc' = "frame" /\ frame' = "too_small"
    /\ UNCHANGED <<panic, overflow_checks, combat_vars, term, list_vars, layout_vars, screen_vars>>

\* Tui::render_text_centred unwraps get_size_checked
RenderTitle ==
    /\ pc = "title"
    /\ IF get_size_checked(term) = "Ok"
       THEN pc' = "list" /\ frame' = "title" /\ panic' = panic
       ELSE pc' = "panicked" /\ frame' = frame /\ panic' = "terminal_too_small"
    /\ UNCHANGED <<overflow_checks, combat_vars, term, list_vars, layout_vars, screen_vars>>

\* poll_stdin and the handling of the input
HandleInput ==
    /\ pc = "input"
    /\ \E input \in Inputs :
         \E r \in {handle_input(input, selected, num_items)} :
           /\ selected' = r.selected
           /\ pc' = IF r.returns THEN "returned" ELSE "frame"
    /\ UNCHANGED <<panic, overflow_checks, combat_vars, term, frame, num_items,
                   scroll_offset, rendered, prev_scroll, layout_vars, screen_vars>>

NextChoose == Resize \/ NewFrame \/ RenderTitle \/ RenderList \/ HandleInput

SpecChoose == InitChoose /\ [][NextChoose]_vars

\* choose_from_list in a terminal whose size stays as it was at the call
NextChooseFixed == NewFrame \/ RenderTitle \/ RenderList \/ HandleInput

SpecChooseFixed == InitChoose /\ [][NextChooseFixed]_vars

----------------------------------------------------------------------------
(* Text wrapping: src/src/menu/unix/text_layout.rs                          *)
(* A text is a sequence of graphemes: "a" (one byte, one column), "w" (a    *)
(* wide grapheme such as an emoji: four bytes, two columns), " " and "\n".  *)
(* Indices into a source line are byte offsets, as in the source.           *)

TEXT_WRAPPING_MIN_SEGMENT_SIZE == 5

\* str::len of one grapheme
bytes(g) == IF g = "w" THEN 4 ELSE 1

\* UnicodeWidthStr::width of one grapheme
width(g) == IF g = "w" THEN 2 ELSE 1

\* str::len
RECURSIVE len(_)
len(s) == IF s = <<>> THEN 0 ELSE bytes(Head(s)) + len(Tail(s))

\* UnicodeWidthStr::width
RECURSIVE str_width(_)
str_width(s) == IF s = <<>> THEN 0 ELSE width(Head(s)) + str_width(Tail(s))

\* str::split
RECURSIVE split(_, _)
split(s, sep) ==
    IF \A i \in 1..Len(s) : s[i] # sep THEN <<s>>
    ELSE LET i == CHOOSE k \in 1..Len(s) : s[k] = sep /\ \A j \in 1..(k - 1) : s[j] # sep
         IN  <<SubSeq(s, 1, i - 1)>> \o split(SubSeq(s, i + 1, Len(s)), sep)

\* The numbers of leading graphemes of s that take exactly b bytes
boundary(s, b) == {k \in 0..Len(s) : len(SubSeq(s, 1, k)) = b}

\* &line[from..to]: panics unless from <= to <= line.len() and both lie on
\* character boundaries
slice(line, from, to) ==
    IF from > to \/ boundary(line, from) = {} \/ boundary(line, to) = {}
    THEN [panic |-> "slice", content |-> <<>>]
    ELSE [panic |-> "none",
          content |-> SubSeq(line, (CHOOSE k \in boundary(line, from) : TRUE) + 1,
                                   CHOOSE k \in boundary(line, to) : TRUE)]

\* a - b on usize: -1 stands for the panic of a build with overflow checks
checked_sub(a, b, checks) ==
    IF b <= a THEN a - b
    ELSE IF checks THEN -1
    ELSE Wrap(a - b + UsizeMax + 1)

\* self.lines.push(TextLine {content: &line[start..end], dash_at_end, length});
\* from and to are the place of the slice in the text. st is
\* [x, start, end, is_line_start, lines, panic]
push(line, base, st, dash_at_end) ==
    LET c == slice(line, st.start, st.end)
    IN  IF c.panic # "none" THEN [st EXCEPT !.panic = c.panic]
        ELSE [st EXCEPT !.lines = Append(@, [content |-> c.content,
                                             dash_at_end |-> dash_at_end,
                                             length |-> Len(c.content),
                                             from |-> base + st.start,
                                             to |-> base + st.end])]

\* The loop over the graphemes of a hyphenated word, from the k-th grapheme,
\* which starts at byte i of the word
RECURSIVE graphemes_loop(_, _, _, _, _, _, _, _)
graphemes_loop(line, base, word, k, i, word_start_index, st, maxw) ==
    IF st.panic # "none" \/ k > Len(word) THEN st
    ELSE LET g_width == width(word[k])
             x == st.x + g_width
             st1 == IF x > maxw
                    THEN LET p == push(line, base, st, TRUE)
                         IN  [p EXCEPT !.start = st.end, !.x = g_width + 1]
                    ELSE [st EXCEPT !.x = x]
         IN  graphemes_loop(line, base, word, k + 1, i + bytes(word[k]), word_start_index,
                            [st1 EXCEPT !.end = word_start_index + i], maxw)

\* One pass of the loop over the words of a source line, from the locals w:
\* [x, start, end, is_line_start, lines, panic, width_left], lines being the
\* TextLines the pass pushes
add_word(line, base, word, w, maxw, checks) ==
    LET wd == str_width(word)
        st == [x |-> w.x, start |-> w.start, end |-> w.end,
               is_line_start |-> w.is_line_start, lines |-> <<>>, panic |-> "none",
               width_left |-> 0]
    IN  IF w.x + wd <= maxw
        THEN [st EXCEPT !.end = IF w.is_line_start THEN @ + len(word) ELSE @ + len(word) + 1,
                        !.is_line_start = FALSE,
                        !.x = @ + wd + 1]
        ELSE
        LET x_minus_1 == checked_sub(w.x, 1, checks)
            width_left == IF x_minus_1 = -1 THEN -1 ELSE checked_sub(maxw, x_minus_1, checks)
            lower == IF width_left = -1 THEN -1 ELSE checked_sub(wd, width_left, checks)
        IN  IF width_left = -1 \/ lower = -1 THEN [st EXCEPT !.panic = "overflow"]
            ELSE
            LET needs_hyphen == wd > Wrap(width_left * 2)
                first_segment_long_enough == width_left >= TEXT_WRAPPING_MIN_SEGMENT_SIZE
                last_segment_long_enough == lower >= TEXT_WRAPPING_MIN_SEGMENT_SIZE
                could_hyphenate == first_segment_long_enough /\ last_segment_long_enough
                render_hyphen == needs_hyphen \/ could_hyphenate
                move_to_new_line == w.x # 0 /\ ~could_hyphenate
                st0 == [st EXCEPT !.width_left = width_left]
            IN  IF render_hyphen
                THEN LET moved == IF move_to_new_line
                                  THEN [push(line, base, st0, FALSE) EXCEPT
                                            !.end = st0.end + 1, !.start = st0.end + 1,
                                            !.x = 0, !.is_line_start = TRUE]
                                  ELSE st0
                         word_start_index == IF move_to_new_line THEN moved.end
                                             ELSE st0.end + 1
                         g == graphemes_loop(line, base, word, 1, 0, word_start_index,
                                             moved, maxw)
                     IN  IF g.panic # "none" THEN g
                         ELSE [g EXCEPT !.end = word_start_index + len(word)]
                ELSE [push(line, base, st0, FALSE) EXCEPT
                          !.start = st0.end + 1,
                          !.end = st0.end + len(word) + 1,
                          !.x = wd]

\* The longest word of the model, in graphemes
MaxWordLen == 10

\* The longest word of wide graphemes
MaxWideLen == 2

\* The number of words of the longest text
MaxWords == 4

\* The longest source line of the model, in graphemes
MaxTextLen == 14

\* The longest text of two source lines, in graphemes
MaxTwoLineLen == 6

\* The widest layout of the model; the narrowest leaves room for one segment
\* of TEXT_WRAPPING_MIN_SEGMENT_SIZE columns and a hyphen
MaxLayoutWidth == 6

LayoutWidths == (TEXT_WRAPPING_MIN_SEGMENT_SIZE + 1)..MaxLayoutWidth

\* The words of the model: runs of narrow graphemes and runs of wide ones
WordShapes ==
    {[i \in 1..n |-> "a"] : n \in 0..MaxWordLen} \cup {[i \in 1..n |-> "w"] : n \in 1..MaxWideLen}

\* The source lines of n words
RECURSIVE SourceLinesOf(_)
SourceLinesOf(n) ==
    IF n = 1 THEN WordShapes
    ELSE UNION {{t \o <<" ">> \o word :
                     word \in {v \in WordShapes : Len(v) + Len(t) < MaxTextLen}} :
                t \in SourceLinesOf(n - 1)}

SourceLines == UNION {SourceLinesOf(n) : n \in 1..MaxWords}

\* The texts of the model: one source line, or two short ones
Texts ==
    SourceLines \cup
    {t \in {l1 \o <<"\n">> \o l2 :
                 l1 \in {l \in SourceLines : Len(l) < MaxTwoLineLen},
                 l2 \in {l \in SourceLines : Len(l) < MaxTwoLineLen}} :
         Len(t) <= MaxTwoLineLen}

\* The loops of TextLayout::new and add_source_line at the first word of the
\* first of the source lines ls, which starts at byte base of the text
StartOf(ls, base) ==
    [line |-> Head(ls), base |-> base, words |-> split(Head(ls), " "), pos |-> 0,
     first |-> 0, rest |-> Tail(ls)]

\* TextLayout::new has been called on any text, for any width
InitLayout ==
    /\ pc = "layout"
    /\ panic = "none"
    /\ overflow_checks \in BOOLEAN
    /\ CombatIdle
    /\ term = [w |-> 0, h |-> 0]
    /\ frame = "none"
    /\ ListIdle
    /\ ScreenIdle
    /\ source_text \in Texts
    /\ max_width \in LayoutWidths
    /\ lines = <<>>
    /\ wrap = LineStart
    /\ todo = StartOf(split(source_text, "\n"), 0)
    /\ last_word = NoWord

\* One pass of the loop over the words of the source line
AddWord ==
    /\ pc = "layout"
    /\ todo.words # <<>>
    /\ LET word == Head(todo.words)
       IN  \E r \in {add_word(todo.line, todo.base, word, wrap, max_width, overflow_checks)} :
             /\ panic' = r.panic
             /\ pc' = IF r.panic = "none" THEN "layout" ELSE "panicked"
             /\ lines' = lines \o r.lines
             /\ wrap' = [x |-> r.x, start |-> r.start, end |-> r.end,
                         is_line_start |-> r.is_line_start]
             /\ last_word' = [fits |-> wrap.x + str_width(word) <= max_width,
                              width |-> str_width(word), width_left |-> r.width_left,
                              base |-> todo.base, pos |-> todo.pos,
                              first |-> todo.first, at |-> Len(lines),
                              pushed |-> Len(r.lines)]
             /\ todo' = [todo EXCEPT
                           !.words = Tail(@),
                           !.pos = @ + len(word) + 1,
                           !.first = IF r.lines = <<>> THEN @
                                     ELSE IF r.lines[Len(r.lines)].dash_at_end THEN r.start
                                     ELSE todo.pos]
    /\ UNCHANGED <<overflow_checks, combat_vars, term, frame, list_vars, screen_vars,
                   source_text, max_width>>

\* The end of add_source_line: the rest of the characters is pushed as a
\* line; TextLayout::new goes on to the next source line or returns
EndSourceLine ==
    /\ pc = "layout"
    /\ todo.words = <<>>
    /\ \E p \in {push(todo.line, todo.base,
                      [x |-> wrap.x, start |-> wrap.start, end |-> wrap.end,
                       is_line_start |-> wrap.is_line_start, lines |-> <<>>,
                       panic |-> "none", width_left |-> 0], FALSE)} :
         /\ panic' = p.panic
         /\ lines' = lines \o p.lines
         /\ IF p.panic # "none"
            THEN pc' = "panicked" /\ UNCHANGED <<wrap, todo>>
            ELSE IF todo.rest = <<>>
            THEN pc' = "laid_out" /\ UNCHANGED <<wrap, todo>>
            ELSE /\ pc' = "layout"
                 /\ wrap' = LineStart
                 /\ todo' = StartOf(todo.rest, todo.base + len(todo.line) + 1)
    /\ UNCHANGED <<overflow_checks, combat_vars, term, frame, list_vars, screen_vars,
                   source_text, max_width, last_word>>

NextLayout == AddWord \/ EndSourceLine

SpecLayout == InitLayout /\ [][NextLayout]_vars

-----------------------------------------------------------------------------
(* Tui::try_show_screen: a screen whose text is revealed over time *)

\* consts.rs: frames shown per second and the length of one frame
FPS == 30

MS_PER_FRAME == 1000 \div FPS

\* consts.rs: graphemes revealed per second and the time for one grapheme
CHARS_PER_SECOND == 50

MS_PER_CHAR == 1000 \div CHARS_PER_SECOND

\* try_show_screen: how many graphemes to render this frame, and whether the
\* scroll has reached the end of the string
graphemes_this_frame(millis, render_all, num) ==
    IF render_all
    THEN [graphemes |-> num, render_all_graphemes |-> TRUE]
    ELSE [graphemes |-> millis \div MS_PER_CHAR,
          render_all_graphemes |-> (millis \div MS_PER_CHAR) > num]

\* A key that closes the screen whether or not the scroll has finished
on_input_always_break(render_all) ==
    [break |-> TRUE, render_all_graphemes |-> TRUE]

\* try_show_screen: input breaks the loop if the scroll has finished, and
\* otherwise skips the rest of the scroll
on_input(render_all) ==
    [break |-> render_all, render_all_graphemes |-> TRUE]

\* The longest content and the most frames explored
MaxGraphemes == 6

MaxFrames == 8

\* try_show_screen has been called on a screen of any content length
InitScreen ==
    /\ pc = "screen_frame"
    /\ panic = "none"
    /\ overflow_checks \in BOOLEAN
    /\ CombatIdle
    /\ term \in LargeTerminals \cup SmallTerminals
    /\ frame = "none"
    /\ ListIdle
    /\ LayoutIdle
    /\ ms = 0
    /\ render_all_graphemes = FALSE
    /\ num_graphemes \in 0..MaxGraphemes
    /\ graphemes = 0
    /\ key = FALSE
    /\ key_at = FALSE

\* One pass from the top of the loop to new_frame: flush, sleep, count the
\* time, compute the graphemes of this frame, draw the border; on
\* TerminalTooSmall the notice is rendered and the loop continues
ScreenFrame ==
    /\ pc = "screen_frame"
    /\ ms < MaxFrames * MS_PER_FRAME
    /\ ms' = ms + MS_PER_FRAME
    /\ \E r \in {graphemes_this_frame(ms + MS_PER_FRAME, render_all_graphemes, num_graphemes)} :
          /\ graphemes' = r.graphemes
          /\ render_all_graphemes' = r.render_all_graphemes
    /\ IF get_size_checked(term) = "Ok"
       THEN pc' = "screen_text" /\ frame' = "border"
       ELSE pc' = "screen_frame" /\ frame' = "too_small"
    /\ key' = FALSE
    /\ key_at' = FALSE
    /\ UNCHANGED <<panic, overflow_checks, combat_vars, term, list_vars, layout_vars,
                   num_graphemes>>

\* Tui::render_graphemes_from_str unwraps get_size_checked
RenderGraphemes ==
    /\ pc = "screen_text"
    /\ IF get_size_checked(term) = "Ok"
       THEN pc' = "screen_title" /\ frame' = "content" /\ panic' = panic
       ELSE pc' = "panicked" /\ frame' = frame /\ panic' = "terminal_too_small"
    /\ UNCHANGED <<overflow_checks, combat_vars, term, list_vars, layout_vars, screen_vars>>

\* Tui::render_text_centred of the screen's title unwraps get_size_checked
RenderScreenTitle ==
    /\ pc = "screen_title"
    /\ IF get_size_checked(term) = "Ok"
       THEN pc' = "screen_poll" /\ frame' = "screen" /\ panic' = panic
       ELSE pc' = "panicked" /\ frame' = frame /\ panic' = "terminal_too_small"
    /\ UNCHANGED <<overflow_checks, combat_vars, term, list_vars, layout_vars, screen_vars>>

\* poll_stdin and what the loop does with its answer
PollScreen ==
    /\ pc = "screen_poll"
    /\ \E is_some \in BOOLEAN :
          /\ key' = is_some
          /\ key_at' = (is_some /\ render_all_graphemes)
          /\ IF is_some
             THEN \E r \in {on_input(render_all_graphemes)} :
                     /\ render_all_graphemes' = r.render_all_graphemes
                     /\ pc' = IF r.break THEN "returned" ELSE "screen_frame"
             ELSE /\ render_all_graphemes' = render_all_graphemes
                  /\ pc' = "screen_frame"
    /\ UNCHANGED <<panic, overflow_checks, combat_vars, term, frame, list_vars, layout_vars,
                   ms, num_graphemes, graphemes>>

NextScreen == Resize \/ ScreenFrame \/ RenderGraphemes \/ RenderScreenTitle \/ PollScreen

SpecScreen == InitScreen /\ [][NextScreen]_vars

-----------------------------------------------------------------------------
(* The game loop: src/src/main.rs, with the rooms around the starting room *)

\* map/weapons.rs
intruders_blaster == Weapon("Intruders Blaster", 5, 3, 3)

\* map/enemies.rs
cook == [name |-> "Cook", health |-> 7, max_health |-> 7, inventory |-> <<standard_blaster>>]

\* map/enemies.rs
skipper == [name |-> "Skipper", health |-> 15, max_health |-> 15, inventory |-> <<>>]

\* map/transitions.rs: the rooms one step from a room, among the cells, the
\* upper corridor, the bridge, the strategy room and the mess hall
connections(r) ==
    CASE r = "Cells" -> {"UpperCorridor"}
      [] r = "UpperCorridor" -> {"Bridge", "StrategyRoom", "Cells", "MessHall"}
      [] r = "Bridge" -> {"UpperCorridor"}
      [] r = "StrategyRoom" -> {"UpperCorridor"}
      [] r = "MessHall" -> {"UpperCorridor"}

\* get_room_state_mut().enemy: the enemy still waiting in a room
room_enemy(r, graph) ==
    IF r = "MessHall" /\ graph.cook THEN "cook"
    ELSE IF r = "StrategyRoom" /\ graph.skipper THEN "skipper"
    ELSE "none"

\* The start of Player::take_passive_action: one turn is taken off the
\* remaining turns before the prompt is shown
turns_after_passive_action(remaining) == remaining - 1

\* The outer time loop starts over: Player::init() and turn_number = 0
NewTimeLoop ==
    /\ player' = [health |-> PLAYER_START_MAX_HEALTH, max_health |-> PLAYER_START_MAX_HEALTH,
                  inventory |-> <<>>]
    /\ enemy' = [name |-> "", health |-> 0, max_health |-> 0, inventory |-> <<>>]
    /\ turn_number' = 0
    /\ turn_start' = 0
    /\ turns_resolved' = 0
    /\ player_action' = NoAction
    /\ enemy_action' = NoAction
    /\ narration' = NoNarration
    /\ result' = "None"
    /\ prev_player' = player'
    /\ prev_enemy' = enemy'
    /\ remaining_turns' = MAX_TURNS
    /\ room' = STARTING_ROOM
    /\ room_graph' = map_init
    /\ pc' = "loop"

\* The first time loop has just started
InitLoop ==
    /\ pc = "loop"
    /\ panic = "none"
    /\ overflow_checks \in BOOLEAN
    /\ CombatIdle
    /\ TuiIdle

\* The top of the inner loop: the loop resets at MAX_TURNS; otherwise the
\* turn is counted and either the enemy of the room is taken into battle() or
\* take_passive_action shows its prompt
LoopTurn ==
    /\ pc = "loop"
    /\ IF turn_number >= MAX_TURNS
       THEN NewTimeLoop
       ELSE /\ turn_number' = turn_number + 1
            /\ IF room_enemy(room, room_graph) # "none"
               THEN /\ room_graph' = [room_graph EXCEPT ![room_enemy(room, room_graph)] = FALSE]
                    /\ enemy' = IF room_enemy(room, room_graph) = "cook" THEN cook ELSE skipper
                    /\ prev_enemy' = enemy'
                    /\ prev_player' = player
                    /\ turn_start' = turn_number + 1
                    /\ turns_resolved' = 0
                    /\ pc' = "turn"
                    /\ UNCHANGED remaining_turns
               ELSE /\ remaining_turns' = turns_after_passive_action(remaining_turns)
                    /\ pc' = "prompt"
                    /\ UNCHANGED <<room_graph, enemy, prev_enemy, prev_player, turn_start,
                                   turns_resolved>>
            /\ UNCHANGED <<player, player_action, enemy_action, narration, result, room>>
    /\ UNCHANGED <<panic, overflow_checks, heal_in, heal_out, tui_vars>>

\* battle() has returned to the game loop: after PlayerWin
\* take_passive_action shows its prompt, after PlayerLoss the loop resets
BattleReturn ==
    /\ pc = "done"
    /\ IF result = "PlayerWin"
       THEN /\ remaining_turns' = turns_after_passive_action(remaining_turns)
            /\ pc' = "prompt"
            /\ UNCHANGED <<player, enemy, turn_number, turn_start, turns_resolved,
                           player_action, enemy_action, narration, result, prev_player,
                           prev_enemy, room, room_graph>>
       ELSE NewTimeLoop
    /\ UNCHANGED <<panic, overflow_checks, heal_in, heal_out, tui_vars>>

\* The rest of Player::take_passive_action: the player checks their state,
\* goes to a connected room or picks up the item of the room
PassiveAction ==
    /\ pc = "prompt"
    /\ \/ UNCHANGED <<player, room, room_graph>>
       \/ /\ room' \in connections(room)
          /\ UNCHANGED <<player, room_graph>>
       \/ /\ room = "Bridge"
          /\ room_graph.intruders_blaster
          /\ room_graph' = [room_graph EXCEPT !.intruders_blaster = FALSE]
          /\ player' = [player EXCEPT !.inventory = Append(@, intruders_blaster)]
          /\ UNCHANGED room
    /\ pc' = "loop"
    /\ UNCHANGED <<enemy, turn_number, turn_start, turns_resolved, player_action,
                   enemy_action, narration, result, prev_player, prev_enemy,
                   remaining_turns>>
    /\ UNCHANGED <<panic, overflow_checks, heal_in, heal_out, tui_vars>>

NextLoop == LoopTurn \/ BattleTurn \/ BattleCheck \/ BattleReturn \/ PassiveAction

SpecLoop == InitLoop /\ [][NextLoop]_vars

----------------------------------------------------------------------------
(* Properties *)

\* health - damage, never below 0
Minus0(health, damage) == IF health - damage < 0 THEN 0 ELSE health - damage

\* The weapon an attack of the last turn was made with
PlayerWeapon == prev_player.inventory[player_action.idx + 1]

EnemyWeapon == prev_enemy.inventory[enemy_action.idx + 1]

\* The last turn was resolved and its result is on the screen
TurnShown == pc = "shown"

\* C1: when both combatants attack straight, only the weapon with the strictly
\* lower speed value deals its straight_damage and the faster side's health is
\* unchanged; at equal speed each side loses the other's straight_damage.
C1_SpeedTieBreak ==
    (TurnShown /\ player_action.kind = "AttackStraight"
               /\ enemy_action.kind = "AttackStraight") =>
        /\ PlayerWeapon.speed < EnemyWeapon.speed =>
             /\ enemy.health = Minus0(prev_enemy.health, PlayerWeapon.straight_damage)
             /\ player.health = prev_player.health
        /\ PlayerWeapon.speed > EnemyWeapon.speed =>
             /\ player.health = Minus0(prev_player.health, EnemyWeapon.straight_damage)
             /\ enemy.health = prev_enemy.health
        /\ PlayerWeapon.speed = EnemyWeapon.speed =>
             /\ enemy.health = Minus0(prev_enemy.health, PlayerWeapon.straight_damage)
             /\ player.health = Minus0(prev_player.health, EnemyWeapon.straight_damage)

\* Both attacked straight with weapons of the same speed and both were hit
C1_Witness ==
    /\ TurnShown
    /\ player_action.kind = "AttackStraight"
    /\ enemy_action.kind = "AttackStraight"
    /\ PlayerWeapon.speed = EnemyWeapon.speed
    /\ player.health < prev_player.health
    /\ enemy.health < prev_enemy.health

\* C2: when exactly one combatant attacks straight and the other chooses
\* Nothing, AttackLeft, AttackRight or EatFood, the defender's health drops by
\* the attacker's straight_damage, saturating at 0, and the attacker's health is
\* unchanged, whichever of the two attacks.
C2_StraightHit ==
    /\ (TurnShown /\ player_action.kind = "AttackStraight"
                  /\ enemy_action.kind \in {"Nothing", "AttackLeft", "AttackRight", "EatFood"}) =>
            /\ enemy.health = Minus0(prev_enemy.health, PlayerWeapon.straight_damage)
            /\ player.health = prev_player.health
    /\ (TurnShown /\ enemy_action.kind = "AttackStraight"
                  /\ player_action.kind \in {"Nothing", "AttackLeft", "AttackRight", "EatFood"}) =>
            /\ player.health = Minus0(prev_player.health, EnemyWeapon.straight_damage)
            /\ enemy.health = prev_enemy.health

\* The enemy's straight attack hit a player who tried to eat
C2_Witness ==
    /\ TurnShown
    /\ enemy_action.kind = "AttackStraight"
    /\ player_action.kind = "EatFood"
    /\ EnemyWeapon.dodge_damage < EnemyWeapon.straight_damage
    /\ player.health = prev_player.health - EnemyWeapon.straight_damage
    /\ enemy.health = prev_enemy.health

\* The 0-based index of the first food item of an inventory that holds one
FirstFood(inventory) ==
    (CHOOSE i \in 1..Len(inventory) :
        /\ inventory[i].kind = "Food"
        /\ \A j \in 1..(i - 1) : inventory[j].kind # "Food") - 1

HoldsFood(inventory) == \E i \in 1..Len(inventory) : inventory[i].kind = "Food"

HoldsWeapon(inventory) == \E i \in 1..Len(inventory) : inventory[i].kind = "Weapon"

C5_HealClamped ==
    LET clamped == Min(heal_in.heal_by, heal_in.max - heal_in.health)
    IN  /\ pc # "panicked"
        /\ pc = "healed" =>
             /\ heal_out.health = heal_in.health + clamped
             /\ heal_out.health <= heal_in.max
             /\ heal_out.inc = clamped
        /\ pc = "used" => player.health = heal_in.health + clamped

\* C6: during a battle that starts with health <= max_health on both sides,
\* each combatant's health stays within 0..max_health: a damage larger than
\* the health leaves it at 0 and no turn raises it above max_health.
C6_HealthInRange ==
    /\ 0 <= player.health /\ player.health <= player.max_health
    /\ 0 <= enemy.health /\ enemy.health <= enemy.max_health

\* A straight hit of more damage than the enemy had health left it at 0
C6_Witness ==
    /\ TurnShown
    /\ player_action.kind = "AttackStraight"
    /\ prev_enemy.health > 0
    /\ prev_enemy.health < PlayerWeapon.straight_damage
    /\ enemy.health = 0

\* C7: after a resolved turn battle() returns PlayerLoss if the player's
\* health is 0, also when the enemy's is 0 too, returns PlayerWin if only the
\* enemy's is 0, and otherwise plays another turn; it returns in no other way.
C7_BattleReturns ==
    [][/\ pc = "shown" =>
            /\ player.health = 0 => (pc' = "done" /\ result' = "PlayerLoss")
            /\ (player.health > 0 /\ enemy.health = 0) =>
                 (pc' = "done" /\ result' = "PlayerWin")
            /\ (player.health > 0 /\ enemy.health > 0) =>
                 (pc' = "turn" /\ result' = "None")
       /\ (pc # "done" /\ pc' = "done") =>
            (pc = "shown" /\ (player.health = 0 \/ enemy.health = 0))]_vars

\* Both healths reached 0 in the same turn and the battle was lost
C7_Witness ==
    /\ pc = "done"
    /\ result = "PlayerLoss"
    /\ player.health = 0
    /\ enemy.health = 0
    /\ prev_player.health > 0
    /\ prev_enemy.health > 0

C9_TurnNumberCountsTurns ==
    pc = "done" => turn_number = turn_start + turns_resolved

\* C10: execute_actions never ends in an out-of-bounds inventory access or
\* an unreachable!() branch, for any pair of actions that were valid when
\* they were chosen, the building of the two descriptions included.
C10_TurnNeverFatal ==
    panic \notin {"index_out_of_bounds", "unreachable"}

\* The name of the item a combatant's action referred to when it was chosen.
ItemChosen(inventory, action) ==
    inventory[action.idx + 1].name

\* C11: in the narration of a resolved turn, the description of each
\* combatant's attack or EatFood action names the item that was at the
\* action's inventory index when the action was chosen.
C11_DescriptionNamesUsedItem ==
    TurnShown =>
        /\ player_action.kind \in Attacks \cup {"EatFood"}
              => narration.player.item = ItemChosen(prev_player.inventory, player_action)
        /\ enemy_action.kind \in Attacks \cup {"EatFood"}
              => narration.enemy.item = ItemChosen(prev_enemy.inventory, enemy_action)

Max(a, b) == IF a >= b THEN a ELSE b

\* render_list has returned
ListRendered == pc = "input" /\ frame = "list"

\* The largest offset that leaves no row of the list area unused
LastOffset == Max(0, num_items - rendered.max_lines)

\* C12: for every item count N >= 1, capacity C, selection in [0, N) and
\* previous scroll offset, the offset render_list computes lies in
\* 0 .. max(0, N - C), and it is 0 whenever N <= C.
C12_OffsetInRange ==
    ListRendered =>
        /\ 0 <= rendered.scroll
        /\ rendered.scroll <= LastOffset
        /\ (num_items <= rendered.max_lines => rendered.scroll = 0)

\* The selected item is one of the item rows render_list drew
SelectionVisible ==
    /\ rendered.scroll <= selected
    /\ selected < rendered.scroll + rendered.rows

ClampedAboveSelection ==
    /\ num_items > rendered.max_lines
    /\ prev_scroll > LastOffset
    /\ selected < LastOffset

C19_TooSmallNeverFatal ==
    panic # "terminal_too_small"

\* The columns a line takes on the screen
line_width(l) == str_width(l.content) + (IF l.dash_at_end THEN 1 ELSE 0)

\* C14: no line produced by TextLayout::new is wider than max_width display
\* columns, the column of the hyphen of a dash_at_end line included.
C14_LinesFit ==
    \A i \in 1..Len(lines) : line_width(lines[i]) <= max_width

\* The last word did not fit on its line, fits on a fresh line, and the
\* width left was below TEXT_WRAPPING_MIN_SEGMENT_SIZE
MustMoveWhole ==
    /\ ~last_word.fits
    /\ last_word.width <= max_width
    /\ last_word.width_left < TEXT_WRAPPING_MIN_SEGMENT_SIZE

\* C15: when a word does not fit on the current line, fits whole on a fresh
\* line and the remaining width is below 5 columns, the line that is
\* finished has dash_at_end = FALSE, ends at the word boundary before the
\* word and holds exactly the words put on it, from the first word of the
\* line on.
C15_WordMovedWhole ==
    MustMoveWhole =>
        /\ last_word.pushed = 1
        /\ Len(lines) > last_word.at
        /\ LET l == lines[last_word.at + 1]
           IN  /\ ~l.dash_at_end
               /\ l.from = last_word.base + last_word.first
               /\ l.to = last_word.base + last_word.pos - 1

\* The text is one word, wider than max_width
OneLongWord ==
    /\ \A i \in 1..Len(source_text) : source_text[i] \notin {" ", "\n"}
    /\ str_width(source_text) > max_width

\* The concatenation of the contents of the lines ls
RECURSIVE contents(_)
contents(ls) == IF ls = <<>> THEN <<>> ELSE Head(ls).content \o contents(Tail(ls))

\* C16: a source line that is one word wider than max_width is laid out
\* as lines of max_width - 1 columns of content with dash_at_end = TRUE,
\* followed by one line with the remainder and dash_at_end = FALSE.
C16_LongWordSplit ==
    (OneLongWord /\ pc # "layout") =>
        /\ pc = "laid_out"
        /\ Len(lines) >= 2
        /\ \A i \in 1..(Len(lines) - 1) :
               lines[i].dash_at_end /\ str_width(lines[i].content) = max_width - 1
        /\ ~lines[Len(lines)].dash_at_end
        /\ lines[Len(lines)].content # <<>>
        /\ contents(lines) = source_text

\* The grapheme of the text that starts at byte b is a space or a line feed
BreakAt(b) ==
    \E k \in boundary(source_text, b) :
        k < Len(source_text) /\ source_text[k + 1] \in {" ", "\n"}

\* The number of lines of ls that end without a hyphen and are not the last
RECURSIVE breaks(_)
breaks(ls) ==
    IF Len(ls) <= 1 THEN 0
    ELSE (IF Head(ls).dash_at_end THEN 0 ELSE 1) + breaks(Tail(ls))

RECURSIVE lengths(_)
lengths(ls) == IF ls = <<>> THEN 0 ELSE Head(ls).length + lengths(Tail(ls))

\* C17: the lines TextLayout::new returns partition the text: the first
\* starts at the start of the text, the last ends at its end, each line is
\* the slice of the text between its bounds, a line after a hyphen starts
\* where the line before it ends, any other line one space or line feed
\* after it, and the lengths add up to the graphemes of the text minus the
\* breaks.
C17_LinesPartitionText ==
    pc = "laid_out" =>
        /\ lines # <<>>
        /\ lines[1].from = 0
        /\ lines[Len(lines)].to = len(source_text)
        /\ \A i \in 1..Len(lines) :
               /\ slice(source_text, lines[i].from, lines[i].to) =
                      [panic |-> "none", content |-> lines[i].content]
               /\ lines[i].length = Len(lines[i].content)
        /\ \A i \in 1..(Len(lines) - 1) :
               IF lines[i].dash_at_end
               THEN lines[i + 1].from = lines[i].to
               ELSE lines[i + 1].from = lines[i].to + 1 /\ BreakAt(lines[i].to)
        /\ lengths(lines) = Len(source_text) - breaks(lines)

\* The text of the screen was rendered in full in the current frame
FullTextShown == frame = "screen" /\ graphemes >= num_graphemes

\* C18: try_show_screen returns only on input polled while
\* render_all_graphemes was set, in a frame that rendered the whole text; input
\* polled while it was unset sets it and leaves the screen open
C18_KeySkipsRevealBeforeClosing ==
    /\ pc = "returned" => key /\ key_at /\ FullTextShown
    /\ (pc \in {"screen_frame", "returned"} /\ key /\ ~key_at)
          => pc = "screen_frame" /\ render_all_graphemes

\* C18 witness: the screen was closed before the timer had revealed the text,
\* by a second key after a first one had skipped the reveal
C18_Witness ==
    /\ pc = "returned"
    /\ num_graphemes > 0
    /\ ms \div MS_PER_CHAR < num_graphemes
    /\ graphemes = num_graphemes

\* C20: at every passive-action prompt, remaining_turns is MAX_TURNS minus
\* the turn number of the game loop
C20_RemainingTurnsIsTurnsLeft ==
    pc = "prompt" => remaining_turns = MAX_TURNS - turn_number

\* The last turn's actions were executed, whether or not the narration was built
TurnExecuted == pc \in {"shown", "panicked"} /\ player_action # NoAction

\* C21: when one combatant chooses EatFood and the other AttackStraight, the
\* eat does not happen: the eater keeps its inventory, is not healed and loses
\* the attacker's straight_damage, the attacker is unchanged and the turn is
\* resolved to its end.
C21_StraightHitStopsEat ==
    /\ (TurnExecuted /\ player_action.kind = "EatFood"
                     /\ enemy_action.kind = "AttackStraight") =>
            /\ pc = "shown"
            /\ player.inventory = prev_player.inventory
            /\ player.inventory[player_action.idx + 1].kind = "Food"
            /\ player.health = Minus0(prev_player.health, EnemyWeapon.straight_damage)
            /\ player.max_health = prev_player.max_health
            /\ enemy = prev_enemy
    /\ (TurnExecuted /\ enemy_action.kind = "EatFood"
                     /\ player_action.kind = "AttackStraight") =>
            /\ pc = "shown"
            /\ enemy.inventory = prev_enemy.inventory
            /\ enemy.inventory[enemy_action.idx + 1].kind = "Food"
            /\ enemy.health = Minus0(prev_enemy.health, PlayerWeapon.straight_damage)
            /\ enemy.max_health = prev_enemy.max_health
            /\ player = prev_player

\* An enemy at half health tried to eat its bread roll, was hit straight
\* and still holds the bread roll
C21_Witness ==
    /\ TurnShown
    /\ enemy_action.kind = "EatFood"
    /\ player_action.kind = "AttackStraight"
    /\ enemy.inventory = prev_enemy.inventory
    /\ enemy.inventory[enemy_action.idx + 1].heals_for > 0
    /\ enemy.health < prev_enemy.health
    /\ enemy.health > 0

\* What the opponent of an eater may choose for the eat to happen
EatTargets == {"Nothing", "DodgeLeft", "DodgeRight", "AttackLeft", "AttackRight", "EatFood"}

\* The food an EatFood action of the last turn referred to
PlayerFood == prev_player.inventory[player_action.idx + 1]

EnemyFood == prev_enemy.inventory[enemy_action.idx + 1]

\* C22: when a combatant chooses EatFood(i) and the opponent Nothing, a
\* dodge, a flank attack or EatFood, the turn is resolved with item i removed
\* from the eater's inventory, the other items in their order, the eater's
\* health at min(max_health, health + heals_for), and a non-eating opponent
\* unchanged; when both eat, both removals and both heals happen.
C22_EatRemovesAndHeals ==
    /\ (TurnExecuted /\ player_action.kind = "EatFood" /\ enemy_action.kind \in EatTargets) =>
            /\ pc = "shown"
            /\ player.inventory = remove(prev_player.inventory, player_action.idx)
            /\ player.health = Min(prev_player.max_health,
                                   prev_player.health + PlayerFood.heals_for)
            /\ enemy_action.kind # "EatFood" => enemy = prev_enemy
    /\ (TurnExecuted /\ enemy_action.kind = "EatFood" /\ player_action.kind \in EatTargets) =>
            /\ pc = "shown"
            /\ enemy.inventory = remove(prev_enemy.inventory, enemy_action.idx)
            /\ enemy.health = Min(prev_enemy.max_health,
                                  prev_enemy.health + EnemyFood.heals_for)
            /\ player_action.kind # "EatFood" => player = prev_player

FlankAttacks == {"AttackLeft", "AttackRight"}

\* The result texts of an attack that did not connect
MissTexts == {"You attacked but it didn't connect", "The enemy attacked but it didn't connect."}

PlayerCaughtDodge ==
    \/ player_action.kind = "AttackLeft" /\ enemy_action.kind = "DodgeLeft"
    \/ player_action.kind = "AttackRight" /\ enemy_action.kind = "DodgeRight"

EnemyCaughtDodge ==
    \/ enemy_action.kind = "AttackLeft" /\ player_action.kind = "DodgeLeft"
    \/ enemy_action.kind = "AttackRight" /\ player_action.kind = "DodgeRight"

\* C24: for AttackLeft against DodgeLeft and AttackRight against DodgeRight,
\* in either role assignment, the dodger's health drops by the attacker's
\* dodge_damage, saturating at 0, the attacker's health and both inventories are
\* unchanged, and the damage the narration reports is the dodger's previous
\* health minus its new health.
C24_CaughtDodge ==
    /\ (TurnExecuted /\ PlayerCaughtDodge) =>
            /\ pc = "shown"
            /\ enemy.health = Minus0(prev_enemy.health, PlayerWeapon.dodge_damage)
            /\ enemy.inventory = prev_enemy.inventory
            /\ player = prev_player
            /\ narration.result_text.amount = prev_enemy.health - enemy.health
    /\ (TurnExecuted /\ EnemyCaughtDodge) =>
            /\ pc = "shown"
            /\ player.health = Minus0(prev_player.health, EnemyWeapon.dodge_damage)
            /\ player.inventory = prev_player.inventory
            /\ enemy = prev_enemy
            /\ narration.result_text.amount = prev_player.health - player.health

\* A player with less health than the enemy's dodge_damage dodged to the
\* side of the attack: the health is 0 and the narration reports what was left
C24_Witness ==
    /\ TurnShown
    /\ EnemyCaughtDodge
    /\ prev_player.health > 0
    /\ prev_player.health < EnemyWeapon.dodge_damage
    /\ player.health = 0
    /\ narration.result_text.amount = prev_player.health

Dodges == {"DodgeLeft", "DodgeRight"}

\* a attacks so that it cannot connect with what b does, and b does not eat
AttackCannotConnect(a, b) ==
    \/ a.kind = "AttackStraight" /\ b.kind \in Dodges
    \/ a.kind \in FlankAttacks /\ b.kind \in {"Nothing"} \cup FlankAttacks
    \/ a.kind = "AttackLeft" /\ b.kind = "DodgeRight"
    \/ a.kind = "AttackRight" /\ b.kind = "DodgeLeft"

\* No attack of the last turn could connect and nobody ate
NothingConnects ==
    \/ AttackCannotConnect(player_action, enemy_action)
    \/ AttackCannotConnect(enemy_action, player_action)
    \/ player_action.kind \in Passive /\ enemy_action.kind \in Passive

\* C25: in every action pair in which no attack connects and nobody eats,
\* execute_actions resolves the turn and leaves both combatants' health and
\* both inventories unchanged.
C25_NoConnectNoChange ==
    (TurnExecuted /\ NothingConnects) =>
        /\ pc = "shown"
        /\ player = prev_player
        /\ enemy = prev_enemy

\* The player attacked straight with a weapon that deals damage, the enemy
\* dodged and nobody was hurt
C25_Witness ==
    /\ TurnShown
    /\ player_action.kind = "AttackStraight"
    /\ enemy_action.kind \in Dodges
    /\ PlayerWeapon.straight_damage > 0
    /\ PlayerWeapon.dodge_damage > 0
    /\ enemy = prev_enemy
    /\ player = prev_player

\* The index an action carries refers, in the inventory, to an item of the
\* kind the action needs
IndexRefersToKind(inventory, action) ==
    /\ action.kind \in Attacks =>
          /\ action.idx < Len(inventory)
          /\ inventory[action.idx + 1].kind = "Weapon"
    /\ action.kind = "EatFood" =>
          /\ action.idx < Len(inventory)
          /\ inventory[action.idx + 1].kind = "Food"

\* C26: every action returned by Player::choose_combat_action or
\* Enemy::choose_combat_action that carries an index refers, in the chooser's
\* inventory at that moment, to a Weapon for the attacks and to a Food for
\* EatFood; an enemy without a weapon never returns an attack.
C26_ChosenIndexValid ==
    player_action # NoAction =>
        /\ IndexRefersToKind(prev_player.inventory, player_action)
        /\ IndexRefersToKind(prev_enemy.inventory, enemy_action)
        /\ ~HoldsWeapon(prev_enemy.inventory) => enemy_action.kind \notin Attacks

\* An enemy above half health, holding a food and behind it a weapon, chose
\* an attack with the weapon
C26_Witness ==
    /\ player_action # NoAction
    /\ enemy_action.kind \in Attacks
    /\ enemy_action.idx = 1
    /\ prev_enemy.inventory[1].kind = "Food"
    /\ prev_enemy.inventory[2].kind = "Weapon"

\* The result texts that tell of the player hitting the enemy
PlayerHitTexts ==
    {"You hit the {enemy} with your {} and dealt {} damage.",
     "The {enemy} dodged, but you caught them and dealt {} damage.",
     "You both attacked, and you were faster and got away unscathed"}

\* C27: when the enemy's straight attack lands on a player who chose Nothing,
\* AttackLeft, AttackRight or EatFood, the result text names the enemy's weapon
\* and tells of the enemy hitting the player, not of the player hitting the
\* enemy.
C27_EnemyHitNarration ==
    (TurnShown /\ enemy_action.kind = "AttackStraight"
               /\ player_action.kind \in {"Nothing", "AttackLeft", "AttackRight", "EatFood"}) =>
        /\ narration.result_text.item = EnemyWeapon.name
        /\ narration.result_text.text \notin PlayerHitTexts

\* action is an attack made with a weapon of the inventory
WeaponAttack(inventory, action) ==
    /\ action.kind \in Attacks
    /\ action.idx < Len(inventory)
    /\ inventory[action.idx + 1].kind = "Weapon"

\* The attack a is not evaded by what the defender does (b)
Lands(a, b) ==
    \/ a.kind = "AttackStraight" /\ b.kind \notin Dodges
    \/ a.kind = "AttackLeft" /\ b.kind = "DodgeLeft"
    \/ a.kind = "AttackRight" /\ b.kind = "DodgeRight"

\* Neither combatant of the battle holds a weapon
Weaponless == ~HoldsWeapon(player.inventory) /\ ~HoldsWeapon(enemy.inventory)

C29_LayoutNeverFatal ==
    pc = "panicked" => panic \notin {"overflow", "slice"}

\* C30: in choose_from_list with a terminal size that stays fixed, starting
\* from selection 0 and scroll offset 0 and moving the selection by one per
\* key press, in every rendered frame the selection is in 0 .. N - 1 and the
\* selected item is one of the rendered item rows (not above the window, not
\* below it, not under the truncation indicator), and Enter returns the
\* index highlighted in that frame.
C30_SelectionShownAndReturned ==
    [][/\ ListRendered' =>
            /\ selected' \in 0..(num_items' - 1)
            /\ SelectionVisible'
       /\ pc' = "returned" =>
            /\ ListRendered
            /\ selected' = selected]_vars

\* Enter is pressed on a list scrolled down one key press at a time, the
\* highlighted item being the last row above the truncation indicator
C30_Witness ==
    /\ pc = "returned"
    /\ frame = "list"
    /\ rendered.scroll > 1
    /\ rendered.ellipsis_at_end
    /\ rendered.rows = rendered.max_lines - 1
    /\ selected = rendered.scroll + rendered.rows - 1

====
